---------------------------- MODULE Spec2Model ----------------------------
(***************************************************************************)
(* Model of scripts/ironman_results_scraper.py: the race loop, the date    *)
(* loop with its driver restart, the page loop, the row attempt loop and   *)
(* the next-page step, against a remote results widget whose interactions  *)
(* may fail.                                                               *)
(***************************************************************************)
EXTENDS Integers, Sequences, FiniteSets, TLC

(***************************************************************************)
(* Bounds of the model: the size of the catalog and of the remote tables,  *)
(* and the number of failing interactions injected per race.               *)
(***************************************************************************)
NumRaces == 2

NumDates == 2

NumPages == 2

RowsPerPage == 2

\* At most this many retry loops, single waits and field reads of one race
\* start to fail. A loop that has started to fail may go on failing freely.
MaxFaults == 1

\* The interactions a remote refuses when its answers are fixed in advance.
MaxPlanned == 1

(***************************************************************************)
(* Program constants.                                                      *)
(***************************************************************************)
SET_ROWS_TO_100 == TRUE

ENABLE_PAGINATION == TRUE

RestartAttempts == 10

SelectAttempts == 5

SetRowsAttempts == 5

RowAttempts == 10

NextPageAttempts == 5

NA == "N/A"

Unbound == "<unbound>"

(***************************************************************************)
(* The remote source: a fixed fixture, so that equal interactions give     *)
(* equal answers. Every race has NumDates date options, every date a table *)
(* of NumPages pages of RowsPerPage rows.                                  *)
(***************************************************************************)
Races == 1..NumRaces

Dates == 1..NumDates

Pages == 1..NumPages

RowNumbers == 1..RowsPerPage

RaceName(r) == "Race " \o ToString(r)

\* The text of option d of the date selector of race r.
DateLabel(r, d) == "R" \o ToString(r) \o " date " \o ToString(d)

\* The date whose table the results frame shows before any selection.
DefaultDate == 1

UnrecognizedText == "OTHER"

DesignationTexts == <<"FINISHER", "DNS", "DNF", "DQ", UnrecognizedText>>

RowOrdinal(d, p, row) == ((d - 1) * NumPages + (p - 1)) * RowsPerPage + row

\* What the designation field of the expanded row shows.
RemoteDesignation(r, d, p, row) ==
    DesignationTexts[((RowOrdinal(d, p, row) + r - 2) % Len(DesignationTexts)) + 1]

\* What field f of the row shows.
RemoteText(r, d, p, row, f) ==
    f \o " of " \o ToString(r) \o "." \o ToString(d) \o "." \o ToString(p)
      \o "." \o ToString(row)

(***************************************************************************)
(* get_text / get_text_by_data_field: the text of the element when one of  *)
(* the lookups finds it, the sentinel when none does.                      *)
(***************************************************************************)
\* Variant: the reads give an empty text, not the sentinel, when they fail.
get_text_blank(found, text) == IF found THEN text ELSE ""

get_text(found, text) == IF found THEN text ELSE NA

BaseFields == {"Race Name", "Race Date", "Athlete", "Designation"}

TimeFields == {"Swim Time", "Transition 1", "Bike Time", "Transition 2",
               "Run Time", "Finish Time"}

RankFields == {"Div Rank", "Gender Rank", "Overall Rank", "Division"}

\* Variant: the elif for DNF is missing and DNF takes the else branch.
RecordFields_no_dnf(designation) ==
    IF designation \in {"DNS", "DQ"} THEN BaseFields
    ELSE BaseFields \cup TimeFields \cup RankFields

\* The keys of the dict appended for a designation (the if / elif / else).
RecordFields(designation) ==
    IF designation \in {"DNS", "DQ"} THEN BaseFields
    ELSE IF designation = "DNF" THEN BaseFields \cup TimeFields
    ELSE BaseFields \cup TimeFields \cup RankFields

\* The fields of a record that are read from the page after the designation.
ReadFields(designation) == RecordFields(designation) \ {"Race Name", "Race Date", "Designation"}

\* Variant: after a read that failed the remaining reads are not made and
\* their fields are left empty.
MakeRecord_abandon(r, date_text, d, p, row, src, designation, bad) ==
    [f \in RecordFields(designation) |->
        CASE f = "Race Name" -> RaceName(r)
          [] f = "Race Date" -> date_text
          [] f = "Designation" -> designation
          [] f \in RankFields ->
                 IF bad = {} \/ f \in bad
                 THEN get_text(src # 0 /\ f \notin bad, RemoteText(r, d, p, src, f))
                 ELSE ""
          [] OTHER -> IF bad = {} \/ f \in bad
                      THEN get_text(f \notin bad, RemoteText(r, d, p, row, f))
                      ELSE ""]

\* The dict appended for row (d, p, row) of race r, the reads of the fields
\* in bad having failed on all their retries. The rank and division reads
\* are anchored on a label, not on the row: they find the first such label
\* of the document, in the detail of row src (0: no detail is open). The
\* other reads are keyed by the data-rowindex of the row itself.
MakeRecord(r, date_text, d, p, row, src, designation, bad) ==
    [f \in RecordFields(designation) |->
        CASE f = "Race Name" -> RaceName(r)
          [] f = "Race Date" -> date_text
          [] f = "Designation" -> designation
          [] f \in RankFields ->
                 get_text(src # 0 /\ f \notin bad, RemoteText(r, d, p, src, f))
          [] OTHER -> get_text(f \notin bad, RemoteText(r, d, p, row, f))]


\* Variant: the record is inserted at the front of the list.
AppendRecord_front(results, rec) == <<rec>> \o results

\* race_results.append(...)
AppendRecord(results, rec) == Append(results, rec)

\* Variant: a retry loop whose counter does not advance.
NextAttempt_stuck(a) == a

\* The next value of a retry loop's counter (for attempt in range(n)).
NextAttempt(a) == a + 1

\* The next-page step has used its attempts (for attempt in range(5)).
NextPageExhausted(a) == a >= NextPageAttempts

\* Variant: the for has no else and pagination_active stays set.
PaginationAfterExhaustion_kept == TRUE

\* The for / else of the next-page step: pagination_active after the
\* attempts are used up.
PaginationAfterExhaustion == FALSE

\* The subsets of S of at most k elements.
RECURSIVE SubsetsUpTo(_, _)
SubsetsUpTo(S, k) ==
    IF k <= 0 THEN {{}}
    ELSE LET prev == SubsetsUpTo(S, k - 1)
         IN  prev \cup {T \cup {f} : T \in prev, f \in S}

(***************************************************************************)
(* State.                                                                  *)
(***************************************************************************)
VARIABLES
    pc,                 \* the statement the script is at
    raceIdx,            \* index of the catalog row being processed
    race_results,       \* the list of dicts of the current race
    race_date_counter,  \* dates processed so far, over all races
    i,                  \* index of the current date option (1-based)
    attempt,            \* counter of the current retry loop
    race_date_text,     \* label of the last option whose text was read
    driver,             \* "unbound", "live" or "quit"
    pagination_active,
    rows,               \* <<date, page>> of the row handles last resolved
    row_number,         \* 1-based
    loc,                \* what the live session shows: blank, race, frame
    tableDate,          \* the date whose table the frame shows
    tablePage,          \* the page of that table
    pageSize,           \* "default" or "max"
    nextNeverDisabled,  \* fixture: the next-page control never reports disabled
    faults,             \* failures injected in the current race
    outcome,            \* "running", "saved" or "aborted" (current race)
    writes,             \* per race, the number of artifact writes
    written,            \* the rows written to the current race's artifact
    recycleExhausted,   \* the restart of the current date used all attempts
    lastPage,           \* last page of the current date whose rows were walked
    clicks,             \* next-page clicks since then (counted up to 2)
    extractedRows,      \* rows of the current race with a successful attempt
    appended,           \* a record of the current row has been appended
    cfgSetRows,         \* the value of SET_ROWS_TO_100 in this run
    cfgPagination,      \* the value of ENABLE_PAGINATION in this run
    opens,              \* sessions created for the current race
    liveSessions,       \* sessions created and not yet quit
    rowWarnings,        \* "Retry ..." lines printed for the current row
    sizeSets,           \* page-size selections in the current session (up to 2)
    sessionRows,        \* a record was appended from the current session
    sizeStepFailed,     \* the page-size step used all attempts in this session
    catalog,            \* the Race Name column of the catalog
    artifacts,          \* the paths written by to_csv, in order
    run,                \* 1 in the first run of the script, 2 in a second run
    plan,               \* the interactions the remote refuses, or FreePlan
    files,              \* per race, the records in its artifact (when planned)
    firstRun,           \* what files was at the end of the first run
    expanded,           \* the rows of the displayed page whose detail is open
    sessionRace,        \* the race whose entry URL the session was sent to
    urls,               \* the URL column of the catalog the scraper loads
    normalised,         \* how many times the column was normalised
    readFn,             \* the field read being made: get_text or get_text_by_data_field
    readRound,          \* the round of that read (attempt in range(retries))
    readVariant,        \* the xpath variant the round is at (1-based)
    readTried,          \* the outcomes of the lookups made, in order
    readResult,         \* what the read returned
    readPc,             \* "idle", "lookup", "returned" or "raised"
    matches,            \* qualified_athletes: the athlete / WC race matches, by index
    matched,            \* qualified_athletes as it was before the closest-race step
    qualPc,             \* "idle", "gaps" or "closest"
    cards,              \* the race cards the listing page shows
    current_count,      \* the cards counted before the click
    polls,              \* the polls of the current click that saw no new card
    race_data,          \* the cards extracted so far, in order (catalog scraper)
    savedCatalog,       \* the rows written to all_ironman_races.csv
    urlsPc              \* the statement the catalog scraper is at

vars == <<pc, raceIdx, race_results, race_date_counter, i, attempt,
          race_date_text, driver, pagination_active, rows, row_number, loc,
          tableDate, tablePage, pageSize, nextNeverDisabled, faults, outcome,
          writes, written, recycleExhausted, lastPage, clicks, extractedRows,
          appended, cfgSetRows, cfgPagination, opens, liveSessions,
          rowWarnings, sizeSets, sessionRows, sizeStepFailed, catalog,
          artifacts, run, plan, files, firstRun, expanded, sessionRace,
          urls, normalised,
          readFn, readRound, readVariant, readTried, readResult, readPc,
          matches, matched, qualPc,
          cards, current_count, polls, race_data, savedCatalog, urlsPc>>

program == <<raceIdx, race_results, race_date_counter, i, attempt,
             race_date_text, pagination_active, rows, row_number>>

session == <<driver, loc, tableDate, tablePage, pageSize, expanded,
             sessionRace>>

ghost == <<outcome, writes, written, recycleExhausted, lastPage, clicks,
           extractedRows, appended>>

audit == <<opens, liveSessions, rowWarnings, sizeSets, sessionRows,
           sizeStepFailed>>

\* The variables of the race loop and of its runs.
main == <<pc, program, session, ghost, audit, faults, nextNeverDisabled,
          cfgSetRows, cfgPagination, run, plan, files, firstRun>>

\* The artifact paths.
paths == <<catalog, artifacts>>

\* The URL column of the catalog.
urlcol == <<urls, normalised>>

\* One field read, lookup by lookup.
reads == <<readFn, readRound, readVariant, readTried, readResult, readPc>>

\* The matches of calculate_wc_qualifiers.
quals == <<matches, matched, qualPc>>

\* The load-more loop of the catalog scraper.
listing == <<cards, current_count, polls, race_data, savedCatalog, urlsPc>>

\* What is followed apart from the race loop, each in a specification of
\* its own.
aside == <<urlcol, reads, quals, listing>>

\* What the statements of the race loop modelled below leave alone; the
\* paths of the artifacts are followed on their own, in ArtifactSpec.
fixed == <<nextNeverDisabled, cfgSetRows, cfgPagination, catalog, artifacts,
           run, plan, firstRun, aside>>

InitScraper ==
    /\ pc = "race_loop"
    /\ raceIdx = 1
    /\ race_results = <<>>
    /\ race_date_counter = 0
    /\ i = 1
    /\ attempt = 0
    /\ race_date_text = Unbound
    /\ driver = "unbound"
    /\ pagination_active = FALSE
    /\ rows = <<0, 0>>
    /\ row_number = 1
    /\ loc = "none"
    /\ tableDate = DefaultDate
    /\ tablePage = 1
    /\ pageSize = "default"
    /\ nextNeverDisabled \in BOOLEAN
    /\ faults = 0
    /\ outcome = "running"
    /\ writes = [r \in Races |-> 0]
    /\ written = <<>>
    /\ recycleExhausted = FALSE
    /\ lastPage = 0
    /\ clicks = 0
    /\ extractedRows = 0
    /\ appended = FALSE
    /\ opens = 0
    /\ liveSessions = 0
    /\ rowWarnings = 0
    /\ sizeSets = 0
    /\ sessionRows = FALSE
    /\ sizeStepFailed = FALSE
    /\ expanded = {}
    /\ sessionRace = 0

\* No artifact of the run has been written.
NoFiles == [r \in Races |-> [saved |-> FALSE, records |-> <<>>]]

\* The remote may refuse or answer any interaction, at any time.
FreePlan == {<<"any", 0, 0, 0, 0, "">>}

\* The settings as the file sets them.
ShippedConfig ==
    /\ cfgSetRows = SET_ROWS_TO_100
    /\ cfgPagination = ENABLE_PAGINATION

\* The artifact paths are not followed.
IdleArtifacts ==
    /\ catalog = <<>>
    /\ artifacts = <<>>

\* One run, against a remote that is free in its answers.
IdleRerun ==
    /\ run = 1
    /\ plan = FreePlan
    /\ files = NoFiles
    /\ firstRun = NoFiles

\* The URL column is not followed.
IdleUrls ==
    /\ urls = <<>>
    /\ normalised = 0

\* No field read is followed lookup by lookup.
IdleRead ==
    /\ readFn = "none"
    /\ readRound = 0
    /\ readVariant = 1
    /\ readTried = <<>>
    /\ readResult = ""
    /\ readPc = "idle"

\* The qualifiers table is not followed.
IdleQualifiers ==
    /\ matches = <<>>
    /\ matched = <<>>
    /\ qualPc = "idle"

\* The catalog scraper is not followed.
IdleCatalog ==
    /\ cards = 0
    /\ current_count = 0
    /\ polls = 0
    /\ race_data = <<>>
    /\ savedCatalog = <<>>
    /\ urlsPc = "idle"

\* The run of the script as it is: both settings as the file sets them.
Init ==
    /\ InitScraper
    /\ ShippedConfig
    /\ IdleArtifacts
    /\ IdleRerun
    /\ IdleUrls
    /\ IdleRead
    /\ IdleQualifiers
    /\ IdleCatalog

\* The runs of the script under each value of its two settings.
ConfigInit ==
    /\ InitScraper
    /\ cfgSetRows \in BOOLEAN
    /\ cfgPagination \in BOOLEAN
    /\ IdleArtifacts
    /\ IdleRerun
    /\ IdleUrls
    /\ IdleRead
    /\ IdleQualifiers
    /\ IdleCatalog

\* An interaction with the remote: its kind, the race, the date index, the
\* page and the row it is about, and the step of it or the field concerned.
Site(kind, d, p, row, what) == <<kind, raceIdx, d, p, row, what>>

\* The remote may refuse the interaction / may answer it.
MayRaise(site) == plan = FreePlan \/ site \in plan

MayPass(site) == plan = FreePlan \/ site \notin plan

\* A failure may be injected at the first attempt of a loop (or at a single
\* wait) while the race's budget lasts; a loop that failed may fail again.
CanFail(a) == a > 0 \/ faults < MaxFaults

Charge(a) == IF a = 0 THEN faults + 1 ELSE faults

\* The results frame as a fresh session shows it.
FreshFrame ==
    /\ loc' = "frame"
    /\ tableDate' = DefaultDate
    /\ tablePage' = 1
    /\ pageSize' = "default"
    /\ expanded' = {}

\* row.click(): the detail of the row opens when it is closed and closes
\* when it is open.
Toggle(open, row) == IF row \in open THEN open \ {row} ELSE open \cup {row}

\* The row whose detail holds the first "Designation" (rank, division)
\* label of the document; 0 when no detail is open.
LabelSource(open) ==
    IF open = {} THEN 0 ELSE CHOOSE n \in open : \A k \in open : n <= k

\* Variant: the session driver refers to is not torn down.
AfterQuit_leak == liveSessions

\* The sessions live after driver.quit().
AfterQuit == IF driver = "live" THEN liveSessions - 1 ELSE liveSessions

\* webdriver.Chrome() returned, live sessions being left from before.
NewSession(left) ==
    /\ liveSessions' = left + 1
    /\ opens' = opens + 1
    /\ sizeSets' = 0
    /\ sessionRows' = FALSE
    /\ sizeStepFailed' = FALSE

\* No session is current any more.
NoSession(left) ==
    /\ liveSessions' = left
    /\ sizeSets' = 0
    /\ sessionRows' = FALSE
    /\ sizeStepFailed' = FALSE
    /\ UNCHANGED opens

(***************************************************************************)
(* The race loop (for index, row in race_data.iterrows()).                 *)
(***************************************************************************)
RaceLoopEnd ==
    /\ pc = "race_loop"
    /\ raceIdx > NumRaces
    /\ pc' = "done"
    /\ UNCHANGED <<program, session, fixed, faults, ghost>>
    /\ UNCHANGED audit
    /\ UNCHANGED files

RaceSetup ==
    /\ pc = "race_loop"
    /\ raceIdx <= NumRaces
    /\ race_results' = <<>>
    /\ pc' = "start_driver"
    /\ faults' = 0
    /\ outcome' = "running"
    /\ written' = <<>>
    /\ recycleExhausted' = FALSE
    /\ lastPage' = 0
    /\ clicks' = 0
    /\ extractedRows' = 0
    /\ appended' = FALSE
    \* These are assigned again before the race reads them; what the last
    \* race left in them is dropped here.
    /\ i' = 1
    /\ attempt' = 0
    /\ pagination_active' = FALSE
    /\ rows' = <<0, 0>>
    /\ row_number' = 1
    /\ UNCHANGED <<raceIdx, race_date_counter, race_date_text, session,
                   fixed, writes>>
    /\ opens' = 0
    /\ rowWarnings' = 0
    /\ sizeSets' = 0
    /\ sessionRows' = FALSE
    /\ sizeStepFailed' = FALSE
    /\ UNCHANGED liveSessions
    /\ UNCHANGED files

\* webdriver.Chrome(); maximize_window(); get(race_url): before the try.
StartDriverOk ==
    /\ pc = "start_driver"
    /\ MayPass(Site("start", 0, 0, 0, "chrome"))
    /\ MayPass(Site("start", 0, 0, 0, "get"))
    /\ driver' = "live"
    /\ loc' = "race"
    /\ pc' = "enter_frame"
    /\ UNCHANGED <<program, tableDate, tablePage, pageSize, fixed,
                   faults, ghost>>
    /\ NewSession(liveSessions)
    /\ UNCHANGED rowWarnings
    /\ UNCHANGED files
    /\ UNCHANGED expanded
    /\ sessionRace' = raceIdx

\* One of them raises: nothing catches it and the script ends.
StartDriverRaises ==
    /\ pc = "start_driver"
    /\ faults < MaxFaults
    /\ faults' = faults + 1
    /\ \/ /\ MayRaise(Site("start", 0, 0, 0, "chrome"))
          /\ UNCHANGED <<driver, loc, sessionRace>> \* Chrome() raised
          /\ UNCHANGED <<opens, liveSessions, sizeSets, sessionRows, sizeStepFailed>>
       \/ /\ MayPass(Site("start", 0, 0, 0, "chrome"))
          /\ MayRaise(Site("start", 0, 0, 0, "get"))
          /\ driver' = "live" /\ loc' = "blank"     \* get(race_url) raised
          /\ sessionRace' = 0
          /\ NewSession(liveSessions)
    /\ pc' = "crashed"
    /\ UNCHANGED <<program, tableDate, tablePage, pageSize, fixed,
                   ghost>>
    /\ UNCHANGED rowWarnings
    /\ UNCHANGED files
    /\ UNCHANGED expanded

\* Wait for the iframe and load its src.
EnterFrameOk ==
    /\ pc = "enter_frame"
    /\ MayPass(Site("frame", 0, 0, 0, ""))
    /\ FreshFrame
    /\ pc' = "list_dates"
    /\ UNCHANGED <<program, driver, fixed, faults, ghost>>
    /\ UNCHANGED audit
    /\ UNCHANGED files
    /\ UNCHANGED sessionRace

EnterFrameRaises ==
    /\ pc = "enter_frame"
    /\ MayRaise(Site("frame", 0, 0, 0, ""))
    /\ faults < MaxFaults
    /\ faults' = faults + 1
    /\ pc' = "except"
    /\ UNCHANGED <<program, session, fixed, ghost>>
    /\ UNCHANGED audit
    /\ UNCHANGED files

\* Open the dropdown, read the option texts, close it.
ListDatesOk ==
    /\ pc = "list_dates"
    /\ MayPass(Site("list", 0, 0, 0, ""))
    /\ i' = 1
    /\ pc' = "date_loop"
    /\ UNCHANGED <<raceIdx, race_results, race_date_counter, attempt,
                   race_date_text, pagination_active, rows, row_number,
                   session, fixed, faults, ghost>>
    /\ UNCHANGED audit
    /\ UNCHANGED files

ListDatesRaises ==
    /\ pc = "list_dates"
    /\ MayRaise(Site("list", 0, 0, 0, ""))
    /\ faults < MaxFaults
    /\ faults' = faults + 1
    /\ pc' = "except"
    /\ UNCHANGED <<program, session, fixed, ghost>>
    /\ UNCHANGED audit
    /\ UNCHANGED files

(***************************************************************************)
(* The date loop (for i in range(len(race_dates))).                        *)
(***************************************************************************)
\* Variant: no restart is ever due and one session serves all the dates.
RestartDue_never(counter) == counter < 0 /\ counter % 1 = 0

\* Variant: the restart is due before every date, the first of the run too.
RestartDue_always(counter) == counter >= 0 /\ counter % 1 = 0

\* if race_date_counter > 0 and race_date_counter % 1 == 0
RestartDue(counter) == counter > 0 /\ counter % 1 = 0

DateLoopEnd ==
    /\ pc = "date_loop"
    /\ i > NumDates
    /\ pc' = "save"
    /\ UNCHANGED <<program, session, fixed, faults, ghost>>
    /\ UNCHANGED audit
    /\ UNCHANGED files

DateLoopBody ==
    /\ pc = "date_loop"
    /\ i <= NumDates
    /\ attempt' = 0
    /\ pc' = IF RestartDue(race_date_counter) THEN "restart" ELSE "select_date"
    /\ recycleExhausted' = FALSE
    /\ lastPage' = 0
    /\ clicks' = 0
    /\ UNCHANGED <<raceIdx, race_results, race_date_counter, i, race_date_text,
                   pagination_active, rows, row_number, session,
                   fixed, faults, outcome, writes, written,
                   extractedRows, appended>>
    /\ rowWarnings' = 0
    /\ UNCHANGED <<opens, liveSessions, sizeSets, sessionRows, sizeStepFailed>>
    /\ UNCHANGED files

\* Variant: the restart loop makes one attempt more.
RestartExhausted_late(a) == a > RestartAttempts

\* for attempt in range(10): the attempts of the restart are used up.
RestartExhausted(a) == a >= RestartAttempts

\* One attempt of the driver restart whose whole sequence succeeds: break.
RestartOk ==
    /\ pc = "restart"
    /\ \A step \in {"chrome", "get", "iframe"} : MayPass(Site("restart", i, 0, 0, step))
    /\ driver' = "live"
    /\ FreshFrame
    /\ attempt' = 0
    /\ pc' = "select_date"
    /\ UNCHANGED <<raceIdx, race_results, race_date_counter, i, race_date_text,
                   pagination_active, rows, row_number, fixed,
                   faults, ghost>>
    /\ NewSession(AfterQuit)
    /\ UNCHANGED rowWarnings
    /\ UNCHANGED files
    /\ sessionRace' = raceIdx

\* One attempt that raises: after driver.quit(), at webdriver.Chrome(), at
\* get(race_url), or at the iframe. After the last attempt the loop is
\* left with whatever session the attempt produced.
RestartRaises ==
    /\ pc = "restart"
    /\ CanFail(attempt)
    /\ faults' = Charge(attempt)
    /\ \/ /\ MayRaise(Site("restart", i, 0, 0, "chrome"))
          /\ driver' = "quit" /\ loc' = "none" /\ NoSession(AfterQuit)
          /\ sessionRace' = 0
       \/ /\ MayPass(Site("restart", i, 0, 0, "chrome"))
          /\ MayRaise(Site("restart", i, 0, 0, "get"))
          /\ driver' = "live" /\ loc' = "blank" /\ NewSession(AfterQuit)
          /\ sessionRace' = 0
       \/ /\ MayPass(Site("restart", i, 0, 0, "chrome"))
          /\ MayPass(Site("restart", i, 0, 0, "get"))
          /\ MayRaise(Site("restart", i, 0, 0, "iframe"))
          /\ driver' = "live" /\ loc' = "race" /\ NewSession(AfterQuit)
          /\ sessionRace' = raceIdx
    /\ tableDate' = DefaultDate
    /\ tablePage' = 1
    /\ pageSize' = "default"
    /\ LET a == NextAttempt(attempt)
       IN  IF RestartExhausted(a)
           THEN /\ attempt' = 0
                /\ pc' = "select_date"
                /\ recycleExhausted' = TRUE
           ELSE /\ attempt' = a
                /\ pc' = "restart"
                /\ UNCHANGED recycleExhausted
    /\ UNCHANGED <<raceIdx, race_results, race_date_counter, i, race_date_text,
                   pagination_active, rows, row_number, fixed,
                   outcome, writes, written, lastPage, clicks, extractedRows,
                   appended>>
    /\ UNCHANGED rowWarnings
    /\ UNCHANGED files
    /\ expanded' = {}

\* Leaving the select loop (break or attempts used up): the counter is
\* incremented and the page-size step, or the page loop, follows.
LeaveSelect ==
    /\ race_date_counter' = race_date_counter + 1
    /\ attempt' = 0
    /\ IF cfgSetRows
       THEN pc' = "set_rows" /\ UNCHANGED pagination_active
       ELSE pc' = "page_loop" /\ pagination_active' = TRUE

SelectOk ==
    /\ pc = "select_date"
    /\ loc = "frame"
    /\ MayPass(Site("select", i, 0, 0, "dropdown"))
    /\ MayPass(Site("select", i, 0, 0, "click"))
    /\ race_date_text' = DateLabel(raceIdx, i)
    /\ tableDate' = i
    /\ tablePage' = 1
    /\ LeaveSelect
    /\ UNCHANGED <<raceIdx, race_results, i, rows, row_number, driver, loc,
                   pageSize, fixed, faults, ghost>>
    /\ UNCHANGED audit
    /\ UNCHANGED files
    /\ expanded' = {}
    /\ UNCHANGED sessionRace

\* The attempt raises, before or after current_option.text was read. With
\* no results frame in the session no dropdown is found at all.
SelectRaises ==
    /\ pc = "select_date"
    /\ loc = "frame" => CanFail(attempt)
    /\ faults' = IF loc = "frame" THEN Charge(attempt) ELSE faults
    /\ \/ /\ loc = "frame" => MayRaise(Site("select", i, 0, 0, "dropdown"))
          /\ UNCHANGED race_date_text
       \/ /\ loc = "frame"
          /\ MayPass(Site("select", i, 0, 0, "dropdown"))
          /\ MayRaise(Site("select", i, 0, 0, "click"))
          /\ race_date_text' = DateLabel(raceIdx, i)
    /\ LET a == NextAttempt(attempt)
       IN  IF a >= SelectAttempts
           THEN LeaveSelect
           ELSE /\ attempt' = a
                /\ UNCHANGED <<pc, race_date_counter, pagination_active>>
    /\ UNCHANGED <<raceIdx, race_results, i, rows, row_number, session,
                   fixed, ghost>>
    /\ UNCHANGED audit
    /\ UNCHANGED files

LeaveSetRows ==
    /\ attempt' = 0
    /\ pagination_active' = TRUE
    /\ pc' = "page_loop"

SetRowsOk ==
    /\ pc = "set_rows"
    /\ loc = "frame"
    /\ MayPass(Site("set_rows", i, 0, 0, ""))
    /\ pageSize' = "max"
    /\ tablePage' = 1
    /\ LeaveSetRows
    /\ UNCHANGED <<raceIdx, race_results, race_date_counter, i, race_date_text,
                   rows, row_number, driver, loc, tableDate, fixed,
                   faults, ghost>>
    /\ sizeSets' = IF sizeSets < 2 THEN sizeSets + 1 ELSE sizeSets
    /\ UNCHANGED <<opens, liveSessions, rowWarnings, sessionRows, sizeStepFailed>>
    /\ UNCHANGED files
    /\ expanded' = {}
    /\ UNCHANGED sessionRace

SetRowsRaises ==
    /\ pc = "set_rows"
    /\ loc = "frame" => (CanFail(attempt) /\ MayRaise(Site("set_rows", i, 0, 0, "")))
    /\ faults' = IF loc = "frame" THEN Charge(attempt) ELSE faults
    /\ LET a == NextAttempt(attempt)
       IN  IF a >= SetRowsAttempts
           THEN LeaveSetRows
           ELSE /\ attempt' = a
                /\ UNCHANGED <<pc, pagination_active>>
    /\ UNCHANGED <<raceIdx, race_results, race_date_counter, i, race_date_text,
                   rows, row_number, session, fixed, ghost>>
    /\ sizeStepFailed' = (NextAttempt(attempt) >= SetRowsAttempts)
    /\ UNCHANGED <<opens, liveSessions, rowWarnings, sizeSets, sessionRows>>
    /\ UNCHANGED files

(***************************************************************************)
(* The page loop (while pagination_active) and the row loop.               *)
(***************************************************************************)
PageLoopExit ==
    /\ pc = "page_loop"
    /\ ~pagination_active
    /\ i' = i + 1
    /\ pc' = "date_loop"
    /\ UNCHANGED <<raceIdx, race_results, race_date_counter, attempt,
                   race_date_text, pagination_active, rows, row_number,
                   session, fixed, faults, ghost>>
    /\ UNCHANGED audit
    /\ UNCHANGED files

\* rows = WebDriverWait(...).until(presence_of_all_elements_located(...))
PageRowsFound ==
    /\ pc = "page_loop"
    /\ pagination_active
    /\ loc = "frame"
    /\ MayPass(Site("rows", i, tablePage, 0, ""))
    /\ rows' = <<tableDate, tablePage>>
    /\ row_number' = 1
    /\ attempt' = 0
    /\ pc' = "row"
    /\ lastPage' = tablePage
    /\ clicks' = 0
    /\ appended' = FALSE
    /\ UNCHANGED <<raceIdx, race_results, race_date_counter, i, race_date_text,
                   pagination_active, session, fixed, faults,
                   outcome, writes, written, recycleExhausted, extractedRows>>
    /\ rowWarnings' = 0
    /\ UNCHANGED <<opens, liveSessions, sizeSets, sessionRows, sizeStepFailed>>
    /\ UNCHANGED files

\* The wait raises: it is in no inner try, so the race's except takes it.
PageRowsRaises ==
    /\ pc = "page_loop"
    /\ pagination_active
    /\ loc = "frame" => (faults < MaxFaults /\ MayRaise(Site("rows", i, tablePage, 0, "")))
    /\ faults' = IF loc = "frame" THEN faults + 1 ELSE faults
    /\ pc' = "except"
    /\ UNCHANGED <<program, session, fixed, ghost>>
    /\ UNCHANGED audit
    /\ UNCHANGED files

\* Variant: leaving the attempts of a row also leaves the loop over the rows
\* of the page.
LeaveRow_break ==
    /\ appended' = FALSE
    /\ attempt' = 0
    /\ pc' = "next_page"
    /\ UNCHANGED <<row_number, pagination_active>>

\* Variant: the next-page step follows the last row whatever the setting.
LeaveRow_paginates ==
    /\ appended' = FALSE
    /\ attempt' = 0
    /\ IF row_number < RowsPerPage
       THEN /\ row_number' = row_number + 1
            /\ pc' = "row"
       ELSE /\ UNCHANGED row_number
            /\ pc' = "next_page"
    /\ UNCHANGED pagination_active

\* After the attempts of a row: the next row, or the next-page step.
LeaveRow ==
    /\ appended' = FALSE
    /\ IF row_number < RowsPerPage
       THEN /\ row_number' = row_number + 1
            /\ attempt' = 0
            /\ pc' = "row"
            /\ UNCHANGED pagination_active
       ELSE /\ UNCHANGED row_number
            /\ attempt' = 0
            /\ IF cfgPagination
               THEN pc' = "next_page" /\ UNCHANGED pagination_active
               ELSE pc' = "page_loop" /\ pagination_active' = FALSE

\* The details open after the first row.click() of the attempt.
Opened == Toggle(expanded, row_number)

\* The designation the attempt reads: that of the first open detail; the
\* sentinel when there is none or when the read fails.
ReadDesignation(desFound) ==
    IF LabelSource(Opened) = 0 THEN get_text(FALSE, "")
    ELSE get_text(desFound,
                  RemoteDesignation(raceIdx, tableDate, tablePage,
                                    LabelSource(Opened)))

\* The record the current attempt appends: the designation is read (or not),
\* then the fields of its branch, those in bad failing.
AttemptRecord(desFound, bad) ==
    MakeRecord(raceIdx, race_date_text, tableDate, tablePage, row_number,
               LabelSource(Opened), ReadDesignation(desFound), bad)

\* The interaction that reads field f for the current row.
FieldSite(f) == Site("field", i, tablePage, row_number, f)

\* The field reads that may fail in an attempt that may still inject n faults
\* (a label-anchored read with no open detail fails by itself).
FieldFaults(n) ==
    {<<desFound, bad>> \in BOOLEAN \X SubsetsUpTo(BaseFields \cup TimeFields \cup RankFields, n) :
        /\ bad \subseteq ReadFields(ReadDesignation(desFound))
        /\ (IF desFound THEN 0 ELSE 1) + Cardinality(bad) <= n
        /\ IF LabelSource(Opened) = 0
           THEN desFound /\ bad \cap RankFields = {}
           ELSE /\ IF desFound THEN MayPass(FieldSite("Designation"))
                   ELSE MayRaise(FieldSite("Designation"))
                /\ \A f \in RankFields \cap ReadFields(ReadDesignation(desFound)) :
                       IF f \in bad THEN MayRaise(FieldSite(f)) ELSE MayPass(FieldSite(f))
        /\ \A f \in ReadFields(ReadDesignation(desFound)) \ RankFields :
               IF f \in bad THEN MayRaise(FieldSite(f)) ELSE MayPass(FieldSite(f))}

FaultCount(ff) == (IF ff[1] THEN 0 ELSE 1) + Cardinality(ff[2])

\* The except of the row attempt loop prints one line per failed attempt.
Warned == (IF attempt = 0 THEN 0 ELSE rowWarnings) + 1

\* An attempt that runs to its break: open, read, append, close.
RowOk ==
    /\ pc = "row"
    /\ race_date_text # Unbound
    /\ MayPass(Site("row_open", i, tablePage, row_number, ""))
    /\ MayPass(Site("row_close", i, tablePage, row_number, ""))
    /\ expanded' = Toggle(Opened, row_number)
    /\ \E ff \in FieldFaults(MaxFaults - faults) :
          /\ race_results' = AppendRecord(race_results, AttemptRecord(ff[1], ff[2]))
          /\ faults' = faults + FaultCount(ff)
    /\ rows' = <<tableDate, tablePage>>
    /\ extractedRows' = IF appended THEN extractedRows ELSE extractedRows + 1
    /\ LeaveRow
    /\ UNCHANGED <<raceIdx, race_date_counter, i, race_date_text, driver,
                   loc, tableDate, tablePage, pageSize,
                   fixed, outcome, writes, written,
                   recycleExhausted, lastPage, clicks>>
    /\ rowWarnings' = 0
    /\ sessionRows' = TRUE
    /\ UNCHANGED <<opens, liveSessions, sizeSets, sizeStepFailed>>
    /\ UNCHANGED files
    /\ UNCHANGED sessionRace

\* An attempt whose closing row.click() raises: the record is appended
\* already, and the except sends the row to its next attempt.
RowCloseRaises ==
    /\ pc = "row"
    /\ race_date_text # Unbound
    /\ CanFail(attempt)
    /\ MayPass(Site("row_open", i, tablePage, row_number, ""))
    /\ MayRaise(Site("row_close", i, tablePage, row_number, ""))
    /\ expanded' = Opened
    /\ \E ff \in FieldFaults(MaxFaults - Charge(attempt)) :
          /\ race_results' = AppendRecord(race_results, AttemptRecord(ff[1], ff[2]))
          /\ faults' = Charge(attempt) + FaultCount(ff)
    /\ rows' = <<tableDate, tablePage>>
    /\ extractedRows' = IF appended THEN extractedRows ELSE extractedRows + 1
    /\ LET a == NextAttempt(attempt)
       IN  IF a >= RowAttempts
           THEN LeaveRow
           ELSE /\ attempt' = a
                /\ appended' = TRUE
                /\ UNCHANGED <<pc, row_number, pagination_active>>
    /\ UNCHANGED <<raceIdx, race_date_counter, i, race_date_text, driver,
                   loc, tableDate, tablePage, pageSize,
                   fixed, outcome, writes, written,
                   recycleExhausted, lastPage, clicks>>
    /\ rowWarnings' = Warned
    /\ sessionRows' = TRUE
    /\ UNCHANGED <<opens, liveSessions, sizeSets, sizeStepFailed>>
    /\ UNCHANGED files
    /\ UNCHANGED sessionRace

\* An attempt that raises before its append: resolving the rows or opening
\* the row raises, or the row is opened and building the dict raises
\* because race_date_text is not bound.
RowRaises ==
    /\ pc = "row"
    /\ \/ /\ CanFail(attempt)
          /\ MayRaise(Site("row_open", i, tablePage, row_number, ""))
          /\ faults' = Charge(attempt)
          /\ UNCHANGED expanded
       \/ /\ race_date_text = Unbound
          /\ MayPass(Site("row_open", i, tablePage, row_number, ""))
          /\ UNCHANGED faults
          /\ expanded' = Opened
    /\ LET a == NextAttempt(attempt)
       IN  IF a >= RowAttempts
           THEN LeaveRow
           ELSE /\ attempt' = a
                /\ UNCHANGED <<pc, row_number, pagination_active, appended>>
    /\ UNCHANGED <<raceIdx, race_results, race_date_counter, i, race_date_text,
                   rows, driver, loc, tableDate, tablePage, pageSize,
                   fixed, outcome, writes, written,
                   recycleExhausted, lastPage, clicks, extractedRows>>
    /\ rowWarnings' = Warned
    /\ UNCHANGED <<opens, liveSessions, sizeSets, sessionRows, sizeStepFailed>>
    /\ UNCHANGED files
    /\ UNCHANGED sessionRace

(***************************************************************************)
(* The next-page step (for attempt in range(5): ... else: ...).            *)
(***************************************************************************)
\* "Mui-disabled" in next_button.get_attribute("class")
NextDisabledShown == tablePage = NumPages /\ ~nextNeverDisabled

\* The page the table shows after a click on the next-page control.
PageAfterClick == IF tablePage < NumPages THEN tablePage + 1 ELSE tablePage

\* EC.staleness_of(rows[0]): the handles belong to a page no longer shown.
Stale(page) == rows # <<tableDate, page>>

CountClick == IF clicks < 2 THEN clicks + 1 ELSE clicks

\* An attempt that raises: its next attempt, or the else of the for.
NextPageRetry ==
    LET a == NextAttempt(attempt)
    IN  /\ attempt' = a
        /\ pc' = IF NextPageExhausted(a) THEN "page_loop" ELSE "next_page"
        /\ pagination_active' =
               IF NextPageExhausted(a) THEN PaginationAfterExhaustion
               ELSE pagination_active

\* The control is not found within its wait, or its click raises.
NextPageRaises ==
    /\ pc = "next_page"
    /\ CanFail(attempt)
    /\ MayRaise(Site("next", i, tablePage, 0, ""))
    /\ faults' = Charge(attempt)
    /\ NextPageRetry
    /\ UNCHANGED <<raceIdx, race_results, race_date_counter, i, race_date_text,
                   rows, row_number, session, fixed, ghost>>
    /\ UNCHANGED audit
    /\ UNCHANGED files

NextPageDisabled ==
    /\ pc = "next_page"
    /\ NextDisabledShown
    /\ MayPass(Site("next", i, tablePage, 0, ""))
    /\ pagination_active' = FALSE
    /\ pc' = "page_loop"
    /\ UNCHANGED <<raceIdx, race_results, race_date_counter, i, attempt,
                   race_date_text, rows, row_number, session,
                   fixed, faults, ghost>>
    /\ UNCHANGED audit
    /\ UNCHANGED files

\* The click fires and the staleness of rows[0] is observed: break.
NextPageAdvanced ==
    /\ pc = "next_page"
    /\ ~NextDisabledShown
    /\ Stale(PageAfterClick)
    /\ MayPass(Site("next", i, tablePage, 0, ""))
    /\ MayPass(Site("stale", i, tablePage, 0, ""))
    /\ tablePage' = PageAfterClick
    /\ clicks' = CountClick
    /\ pc' = "page_loop"
    /\ UNCHANGED <<raceIdx, race_results, race_date_counter, i, attempt,
                   race_date_text, pagination_active, rows, row_number,
                   driver, loc, tableDate, pageSize, fixed,
                   faults, outcome, writes, written, recycleExhausted,
                   lastPage, extractedRows, appended>>
    /\ UNCHANGED audit
    /\ UNCHANGED files
    /\ expanded' = IF PageAfterClick = tablePage THEN expanded ELSE {}
    /\ UNCHANGED sessionRace

\* The click fires and the staleness wait raises: always when the table
\* did not move, and by timeout when it did. The except retries the step.
NextPageStalenessRaises ==
    /\ pc = "next_page"
    /\ ~NextDisabledShown
    /\ MayPass(Site("next", i, tablePage, 0, ""))
    /\ Stale(PageAfterClick) =>
           (CanFail(attempt) /\ MayRaise(Site("stale", i, tablePage, 0, "")))
    /\ faults' = IF Stale(PageAfterClick) THEN Charge(attempt) ELSE faults
    /\ tablePage' = PageAfterClick
    /\ clicks' = CountClick
    /\ NextPageRetry
    /\ UNCHANGED <<raceIdx, race_results, race_date_counter, i, race_date_text,
                   rows, row_number, driver, loc, tableDate, pageSize,
                   fixed, outcome, writes, written,
                   recycleExhausted, lastPage, extractedRows, appended>>
    /\ UNCHANGED audit
    /\ UNCHANGED files
    /\ expanded' = IF PageAfterClick = tablePage THEN expanded ELSE {}
    /\ UNCHANGED sessionRace

(***************************************************************************)
(* The end of a race: save, except, finally.                               *)
(***************************************************************************)
\* df_race = pd.DataFrame(race_results); df_race.to_csv(csv_filename, ...)
SaveResults ==
    /\ pc = "save"
    /\ written' = race_results
    /\ writes' = [writes EXCEPT ![raceIdx] = @ + 1]
    /\ outcome' = "saved"
    /\ pc' = "finally"
    /\ UNCHANGED <<program, session, fixed, faults,
                   recycleExhausted, lastPage, clicks, extractedRows, appended>>
    /\ UNCHANGED audit
    /\ files' = IF plan = FreePlan THEN files
               ELSE [files EXCEPT ![raceIdx] =
                               [saved |-> TRUE, records |-> race_results]]

\* except Exception as e: print(...)
ExceptRace ==
    /\ pc = "except"
    /\ outcome' = "aborted"
    /\ pc' = "finally"
    /\ UNCHANGED <<program, session, fixed, faults, writes,
                   written, recycleExhausted, lastPage, clicks, extractedRows,
                   appended>>
    /\ UNCHANGED audit
    /\ UNCHANGED files

\* finally: driver.quit(); then the next catalog row.
FinallyQuit ==
    /\ pc = "finally"
    /\ driver' = "quit"
    /\ loc' = "none"
    /\ tableDate' = DefaultDate
    /\ tablePage' = 1
    /\ pageSize' = "default"
    /\ raceIdx' = raceIdx + 1
    /\ pc' = "race_loop"
    /\ UNCHANGED <<race_results, race_date_counter, i, attempt, race_date_text,
                   pagination_active, rows, row_number, fixed,
                   faults, ghost>>
    /\ NoSession(AfterQuit)
    /\ UNCHANGED rowWarnings
    /\ UNCHANGED files
    /\ expanded' = {}
    /\ sessionRace' = 0

\* Variant: the second run goes on from the counter the first run reached.
InitialCounter_kept == race_date_counter

\* race_date_counter = 0: the value a run starts with.
InitialCounter == 0

\* The script is started again once it has ended: a new process, whose
\* variables are those of a first start; the settings, the catalog and the
\* remote are the same, and the artifacts of the first run are set aside.
Rerun ==
    /\ pc \in {"done", "crashed"}
    /\ run = 1
    /\ run' = 2
    /\ firstRun' = files
    /\ files' = NoFiles
    /\ pc' = "race_loop"
    /\ raceIdx' = 1
    /\ race_results' = <<>>
    /\ race_date_counter' = InitialCounter
    /\ i' = 1
    /\ attempt' = 0
    /\ race_date_text' = Unbound
    /\ driver' = "unbound"
    /\ pagination_active' = FALSE
    /\ rows' = <<0, 0>>
    /\ row_number' = 1
    /\ loc' = "none"
    /\ tableDate' = DefaultDate
    /\ tablePage' = 1
    /\ pageSize' = "default"
    /\ expanded' = {}
    /\ sessionRace' = 0
    /\ faults' = 0
    /\ outcome' = "running"
    /\ writes' = [r \in Races |-> 0]
    /\ written' = <<>>
    /\ recycleExhausted' = FALSE
    /\ lastPage' = 0
    /\ clicks' = 0
    /\ extractedRows' = 0
    /\ appended' = FALSE
    /\ opens' = 0
    /\ rowWarnings' = 0
    /\ sizeSets' = 0
    /\ sessionRows' = FALSE
    /\ sizeStepFailed' = FALSE
    /\ UNCHANGED <<liveSessions, nextNeverDisabled, cfgSetRows, cfgPagination,
                   catalog, artifacts, plan, aside>>

Next ==
    \/ RaceLoopEnd
    \/ RaceSetup
    \/ StartDriverOk
    \/ StartDriverRaises
    \/ EnterFrameOk
    \/ EnterFrameRaises
    \/ ListDatesOk
    \/ ListDatesRaises
    \/ DateLoopEnd
    \/ DateLoopBody
    \/ RestartOk
    \/ RestartRaises
    \/ SelectOk
    \/ SelectRaises
    \/ SetRowsOk
    \/ SetRowsRaises
    \/ PageLoopExit
    \/ PageRowsFound
    \/ PageRowsRaises
    \/ RowOk
    \/ RowCloseRaises
    \/ RowRaises
    \/ NextPageRaises
    \/ NextPageDisabled
    \/ NextPageAdvanced
    \/ NextPageStalenessRaises
    \/ SaveResults
    \/ ExceptRace
    \/ FinallyQuit

Spec == Init /\ [][Next]_vars

\* The script is one sequential process and every wait has a timeout: a
\* step that can be taken is taken.
FairSpec == Spec /\ WF_vars(Next)

\* The script under every value of SET_ROWS_TO_100 and ENABLE_PAGINATION.
ConfigSpec == ConfigInit /\ [][Next]_vars

(***************************************************************************)
(* Two runs against a remote whose answers are fixed in advance: the same  *)
(* interaction has the same outcome whenever it is made.                   *)
(***************************************************************************)
\* The fields whose reads a plan may refuse: the designation, one field
\* keyed by the row and one anchored on a label.
PlannedFields == {"Designation", "Athlete", "Div Rank"}

\* The interactions of the script with the remote.
Sites ==
    {<<"start", r, 0, 0, 0, w>> : r \in Races, w \in {"chrome", "get"}}
    \cup {<<k, r, 0, 0, 0, "">> : k \in {"frame", "list"}, r \in Races}
    \cup {<<"restart", r, d, 0, 0, w>> :
              r \in Races, d \in Dates, w \in {"chrome", "get", "iframe"}}
    \cup {<<"select", r, d, 0, 0, w>> :
              r \in Races, d \in Dates, w \in {"dropdown", "click"}}
    \cup {<<"set_rows", r, d, 0, 0, "">> : r \in Races, d \in Dates}
    \cup {<<k, r, d, p, 0, "">> :
              k \in {"rows", "next", "stale"}, r \in Races, d \in Dates, p \in Pages}
    \cup {<<k, r, d, p, n, "">> :
              k \in {"row_open", "row_close"}, r \in Races, d \in Dates,
              p \in Pages, n \in RowNumbers}
    \cup {<<"field", r, d, p, n, f>> :
              r \in Races, d \in Dates, p \in Pages, n \in RowNumbers,
              f \in PlannedFields}

\* The answers of a remote: the interactions it refuses, every time.
Plans == SubsetsUpTo(Sites, MaxPlanned)

RerunInit ==
    /\ InitScraper
    /\ ShippedConfig
    /\ IdleArtifacts
    /\ run = 1
    /\ plan \in Plans
    /\ files = NoFiles
    /\ firstRun = NoFiles
    /\ IdleUrls
    /\ IdleRead
    /\ IdleQualifiers
    /\ IdleCatalog

RerunNext == Next \/ Rerun

RerunSpec == RerunInit /\ [][RerunNext]_vars

(***************************************************************************)
(* The artifact paths: safe_race_name = re.sub(r'\W+', '_', race_name) and *)
(* csv_filename = os.path.join(output_directory, f"{safe_race_name}.csv"), *)
(* over catalogs of short names. A name is a sequence of characters.       *)
(***************************************************************************)
MaxNameLen == 3

\* Characters that \w matches, and characters that \W matches.
WordChars == {"A", "_"}

NonWordChars == {" ", "-"}

NameChars == WordChars \cup NonWordChars

\* output_directory = "data/urls/all_ironman_races/", as the directories it
\* names from the working directory down.
output_directory == <<"data", "urls", "all_ironman_races">>

RECURSIVE SkipNonWord(_)
SkipNonWord(name) ==
    IF name # <<>> /\ Head(name) \in NonWordChars
    THEN SkipNonWord(Tail(name))
    ELSE name

\* re.sub(r'\W+', '_', race_name): each maximal run of \W becomes one "_".
RECURSIVE safe_race_name(_)
safe_race_name(name) ==
    IF name = <<>> THEN <<>>
    ELSE IF Head(name) \in NonWordChars
         THEN <<"_">> \o safe_race_name(SkipNonWord(name))
         ELSE <<Head(name)>> \o safe_race_name(Tail(name))

csv_filename(name) == <<output_directory>> \o safe_race_name(name) \o <<".csv">>

RaceNames == UNION {[1..n -> NameChars] : n \in 1..MaxNameLen}

\* The catalogs whose races all have different names.
Catalogs ==
    {c \in [Races -> RaceNames] : \A r1, r2 \in Races : r1 # r2 => c[r1] # c[r2]}

ArtifactInit ==
    /\ InitScraper
    /\ ShippedConfig
    /\ IdleRerun
    /\ catalog \in Catalogs
    /\ artifacts = <<>>
    /\ IdleUrls
    /\ IdleRead
    /\ IdleQualifiers
    /\ IdleCatalog

\* What the artifact steps leave alone: all but raceIdx and artifacts.
scrape == <<pc, race_results, race_date_counter, i, attempt, race_date_text,
            driver, pagination_active, rows, row_number, loc, tableDate,
            tablePage, pageSize, nextNeverDisabled, faults, outcome, writes,
            written, recycleExhausted, lastPage, clicks, extractedRows,
            appended, cfgSetRows, cfgPagination, opens, liveSessions,
            rowWarnings, sizeSets, sessionRows, sizeStepFailed, catalog,
            run, plan, files, firstRun, expanded, sessionRace, aside>>

\* The race at raceIdx runs to df_race.to_csv(csv_filename, ...).
ArtifactWritten ==
    /\ raceIdx <= NumRaces
    /\ artifacts' = Append(artifacts, csv_filename(catalog[raceIdx]))
    /\ raceIdx' = raceIdx + 1
    /\ UNCHANGED scrape

\* The race at raceIdx is aborted: its except writes nothing.
ArtifactSkipped ==
    /\ raceIdx <= NumRaces
    /\ raceIdx' = raceIdx + 1
    /\ UNCHANGED <<artifacts, scrape>>

ArtifactNext == ArtifactWritten \/ ArtifactSkipped

\* The race loop reduced to its artifact writes, over every catalog.
ArtifactSpec == ArtifactInit /\ [][ArtifactNext]_vars

(***************************************************************************)
(* Well-formedness of the state.                                           *)
(***************************************************************************)
TypeOK ==
    /\ pc \in {"race_loop", "start_driver", "enter_frame", "list_dates",
               "date_loop", "restart", "select_date", "set_rows", "page_loop",
               "row", "next_page", "save", "except", "finally", "done",
               "crashed"}
    /\ raceIdx \in 1..(NumRaces + 1)
    /\ race_date_counter \in 0..(NumRaces * NumDates)
    /\ i \in 1..(NumDates + 1)
    /\ attempt \in 0..RestartAttempts
    /\ driver \in {"unbound", "live", "quit"}
    /\ loc \in {"none", "blank", "race", "frame"}
    /\ pagination_active \in BOOLEAN
    /\ row_number \in RowNumbers
    /\ tableDate \in Dates
    /\ tablePage \in Pages
    /\ pageSize \in {"default", "max"}
    /\ faults \in 0..MaxFaults
    /\ outcome \in {"running", "saved", "aborted"}
    /\ clicks \in 0..2
    /\ lastPage \in 0..NumPages
    /\ cfgSetRows \in BOOLEAN
    /\ cfgPagination \in BOOLEAN
    /\ opens \in 0..(1 + NumDates * RestartAttempts)
    /\ liveSessions \in 0..1
    /\ rowWarnings \in 0..RowAttempts
    /\ sizeSets \in 0..2
    /\ sessionRows \in BOOLEAN
    /\ sizeStepFailed \in BOOLEAN
    /\ expanded \subseteq RowNumbers
    /\ sessionRace \in 0..NumRaces

(***************************************************************************)
(* Properties.                                                             *)
(***************************************************************************)
RecognizedDesignations == {"FINISHER", "DNF", "DNS", "DQ"}

\* The race reached its finally with its artifact written.
RaceSaved == pc = "finally" /\ outcome = "saved"

\* The race reached its finally through the except.
RaceAborted == pc = "finally" /\ outcome = "aborted"

\* C1: when a race is abandoned after an error that escapes the date loop or
\* the page loop, the records accumulated so far are written to its artifact.
C1_AbortPersistsRecords ==
    (RaceAborted /\ race_results # <<>>)
        => (writes[raceIdx] >= 1 /\ written = race_results)

\* C2: at the end of a run every race of the catalog has had exactly one
\* artifact write, whether it completed or was aborted.
C2_OneWritePerRace ==
    pc = "done" => \A r \in Races : writes[r] = 1

\* C3: a failure to create the automation context, to navigate to the entry
\* URL or to enter the results frame abandons only that race; no failure
\* inside a race stops the run.
C3_RunSurvivesOpenFailure == pc # "crashed"

\* C4: when a session recycle fails on all its attempts, only the current
\* date facet is abandoned: the race is not aborted during that date.
C4_RecycleFailureKeepsRace == ~(recycleExhausted /\ pc = "except")

\* C5: for a race processed to completion the number of records persisted
\* equals the number of rows with a successful extraction attempt.
C5_OneRecordPerExtractedRow ==
    RaceSaved => Len(written) = extractedRows

\* C6 (as stated): every record appended has a designation among FINISHER,
\* DNF, DNS, DQ.
C6_DesignationRecognized ==
    \A k \in DOMAIN race_results :
        race_results[k]["Designation"] \in RecognizedDesignations

\* C6 (amended): the designation of every record appended is the text the
\* first designation field of the page shows (that of the first row whose
\* detail is open once the row was clicked), or the sentinel when the lookup
\* failed on all its retries; it is the sentinel when no detail is open.
C6_DesignationAsRead ==
    [][Len(race_results') > Len(race_results)
        => \E k \in DOMAIN race_results' :
              /\ race_results'[k]["Designation"] \in
                    (IF LabelSource(Opened) = 0 THEN {NA}
                     ELSE {RemoteDesignation(raceIdx, tableDate, tablePage,
                                             LabelSource(Opened)), NA})
              /\ race_results' = AppendRecord(race_results, race_results'[k])]_vars

C6_Witness ==
    \E k \in DOMAIN race_results : race_results[k]["Designation"] = NA

\* The fields a designation mandates.
MandatedFields(designation) ==
    CASE designation \in {"DNS", "DQ"} ->
            {"Race Name", "Race Date", "Athlete", "Designation"}
      [] designation = "DNF" ->
            {"Race Name", "Race Date", "Athlete", "Designation", "Swim Time",
             "Transition 1", "Bike Time", "Transition 2", "Run Time",
             "Finish Time"}
      [] OTHER ->
            {"Race Name", "Race Date", "Athlete", "Designation", "Swim Time",
             "Transition 1", "Bike Time", "Transition 2", "Run Time",
             "Finish Time", "Div Rank", "Gender Rank", "Overall Rank",
             "Division"}

\* C7: the fields of every record are determined by its designation: DNS or
\* DQ the four base fields, DNF those and the six durations, any other
\* value (the sentinel included) the FINISHER shape.
C7_FieldsByDesignation ==
    \A k \in DOMAIN race_results :
        DOMAIN race_results[k] = MandatedFields(race_results[k]["Designation"])

C7_Witness ==
    /\ \E k \in DOMAIN race_results :
          /\ race_results[k]["Designation"] = NA
          /\ "Div Rank" \in DOMAIN race_results[k]
    /\ \E k \in DOMAIN race_results : race_results[k]["Designation"] = "DNF"
    /\ \E k \in DOMAIN race_results : race_results[k]["Designation"] = "DNS"

\* C8: the loop over the pages of a date facet always terminates, also when
\* the next-page control never reports disabled.
C8_PageLoopTerminates ==
    (pc \in {"page_loop", "row", "next_page"}) ~> (pc \in {"date_loop", "except"})

\* The control never reports disabled, the table is at its last page, and
\* the next-page step has ended the pagination after its last attempt.
C8_Witness ==
    /\ nextNeverDisabled
    /\ pc = "page_loop"
    /\ ~pagination_active
    /\ attempt = NextPageAttempts
    /\ tablePage = NumPages

\* C9: between the extraction of one page and of the next the next-page
\* control is clicked exactly once and the table advances by exactly one
\* page, and no page is left out when the pagination of the date ends.
C9_OnePagePerClick ==
    [][/\ (pc = "page_loop" /\ pc' = "row" /\ lastPage > 0)
            => (tablePage = lastPage + 1 /\ clicks = 1)
       /\ (pc = "page_loop" /\ pc' = "date_loop")
            => tablePage = lastPage]_vars

\* The records of race r in date-major, page-major, row-major order.
ExpectedRecords(r) ==
    [k \in 1..(NumDates * NumPages * RowsPerPage) |->
        LET d == ((k - 1) \div (NumPages * RowsPerPage)) + 1
            p == (((k - 1) \div RowsPerPage) % NumPages) + 1
            row == ((k - 1) % RowsPerPage) + 1
        IN  MakeRecord(r, DateLabel(r, d), d, p, row, row,
                       RemoteDesignation(r, d, p, row), {})]

\* C10: when no remote interaction of a race fails, its records are in
\* date-major, page-major, row-major order, one per row.
C10_RecordOrder ==
    (RaceSaved /\ faults = 0) => written = ExpectedRecords(raceIdx)

C10_Witness ==
    /\ RaceSaved
    /\ faults = 0
    /\ Len(written) = NumDates * NumPages * RowsPerPage
    /\ Len(written) >= 8

\* C11 (as stated): a session recycle is requested before each date facet of
\* every race, so a race with n dates whose interactions all succeed opens
\* n sessions for recycling and one initially.
C11_RecycleBeforeEachDate ==
    (RaceSaved /\ faults = 0) => opens = NumDates + 1

\* C11 (amended): a recycle is requested before a date facet exactly when a
\* date facet has been processed before it in the run (race_date_counter > 0),
\* so the race that processes the first date facet of the run opens n - 1
\* sessions for recycling and one initially, and every later race n and one,
\* when no interaction fails.
C11_RecycleAfterFirstDate ==
    [][/\ (pc = "date_loop" /\ pc' = "restart") => race_date_counter > 0
       /\ (pc = "date_loop" /\ pc' = "select_date") => race_date_counter = 0
       /\ (RaceSaved' /\ faults' = 0)
            => opens' = (IF race_date_counter' = NumDates
                         THEN NumDates ELSE NumDates + 1)]_vars

\* The first race of the run is saved with no failure, having opened one
\* session fewer than it has dates plus one.
C11_Witness ==
    /\ RaceSaved
    /\ faults = 0
    /\ raceIdx = 1
    /\ race_date_counter = NumDates
    /\ opens = NumDates

\* The number of fields of the records that hold the sentinel.
NACount(results) ==
    Cardinality({kf \in (DOMAIN results) \X (BaseFields \cup TimeFields \cup RankFields) :
                    /\ kf[2] \in DOMAIN results[kf[1]]
                    /\ results[kf[1]][kf[2]] = NA})

\* Every failure injected in the race was the failure of one field read.
OnlyFieldReadsFailed == faults = NACount(written)

\* C12 (as stated): when the reads of a field fail on all retries, that field
\* is "N/A" and nothing else changes: every row still has its one record,
\* with the fields and the other values it would have had.
C12_OnlyThatFieldChanges ==
    (RaceSaved /\ OnlyFieldReadsFailed)
        => /\ Len(written) = Len(ExpectedRecords(raceIdx))
           /\ \A k \in DOMAIN written :
                 /\ DOMAIN written[k] = DOMAIN ExpectedRecords(raceIdx)[k]
                 /\ \A f \in DOMAIN written[k] :
                       written[k][f] \in {ExpectedRecords(raceIdx)[k][f], NA}

\* C12 (amended): a field whose reads fail is "N/A"; every row still has its
\* one record and every other field its designation mandates keeps its
\* value; a record whose designation read failed has the FINISHER shape,
\* whatever the row shows.
C12_FieldFailureContained ==
    (RaceSaved /\ OnlyFieldReadsFailed)
        => /\ Len(written) = Len(ExpectedRecords(raceIdx))
           /\ \A k \in DOMAIN written :
                 /\ DOMAIN written[k] =
                        (IF written[k]["Designation"] = NA
                         THEN BaseFields \cup TimeFields \cup RankFields
                         ELSE DOMAIN ExpectedRecords(raceIdx)[k])
                 /\ \A f \in DOMAIN ExpectedRecords(raceIdx)[k] :
                       written[k][f] \in {ExpectedRecords(raceIdx)[k][f], NA}
                 /\ \A f \in DOMAIN written[k] \ DOMAIN ExpectedRecords(raceIdx)[k] :
                       written[k][f] \in
                           {RemoteText(raceIdx, ((k - 1) \div (NumPages * RowsPerPage)) + 1,
                                       (((k - 1) \div RowsPerPage) % NumPages) + 1,
                                       ((k - 1) % RowsPerPage) + 1, f), NA}

\* A race saved with one record per row, the swim time of one of them being
\* the only field whose reads failed.
C12_Witness ==
    /\ RaceSaved
    /\ faults = 1
    /\ NACount(written) = 1
    /\ Len(written) = NumDates * NumPages * RowsPerPage
    /\ \E k \in DOMAIN written :
          /\ "Swim Time" \in DOMAIN written[k]
          /\ written[k]["Swim Time"] = NA

\* C13: when the 10th attempt of a row fails and no attempt has appended a
\* record, the row is left without a record, one warning has been printed
\* per failed attempt, and the script goes on to the next row of the same
\* page (to the next-page step after the last row): the page, the date and
\* the race go on.
C13_RowSkipped ==
    [][(pc = "row" /\ attempt = RowAttempts - 1 /\ ~appended
            /\ Len(race_results') = Len(race_results))
        => /\ rowWarnings' = RowAttempts
           /\ race_results' = race_results
           /\ extractedRows' = extractedRows
           /\ pc' = (IF row_number < RowsPerPage THEN "row"
                     ELSE IF cfgPagination THEN "next_page" ELSE "page_loop")
           /\ row_number < RowsPerPage => (row_number' = row_number + 1 /\ attempt' = 0)
           /\ UNCHANGED <<raceIdx, i, tableDate, tablePage, rows, outcome>>]_vars

\* The first row of a page was skipped after ten warnings although the race
\* date was bound, and the second row of that page is at its first attempt.
C13_Witness ==
    /\ pc = "row"
    /\ row_number = 2
    /\ attempt = 0
    /\ rowWarnings = RowAttempts
    /\ race_date_text # Unbound
    /\ race_results = <<>>
    /\ outcome = "running"

\* C14: when the next-page step fails on its last attempt, the pagination
\* of the current date ends and nothing else: the records extracted so far
\* are kept, the race is not aborted, and the date loop goes on to the next
\* date.
C14_PaginationFailureEndsDate ==
    [][/\ (pc = "next_page" /\ attempt = NextPageAttempts - 1 /\ attempt' = NextPageAttempts)
            => /\ pc' = "page_loop"
               /\ ~pagination_active'
               /\ UNCHANGED <<race_results, i, raceIdx, outcome>>
       /\ (pc = "page_loop" /\ attempt = NextPageAttempts)
            => /\ pc' = "date_loop"
               /\ i' = i + 1
               /\ UNCHANGED <<race_results, raceIdx, outcome>>]_vars

\* The next-page step of the first date used all its attempts after records
\* were extracted, and the date loop is at the second date with the records
\* kept.
C14_Witness ==
    /\ pc = "date_loop"
    /\ i = 2
    /\ attempt = NextPageAttempts
    /\ ~pagination_active
    /\ ~nextNeverDisabled
    /\ outcome = "running"
    /\ Len(race_results) >= RowsPerPage

\* C15: a failure to resolve the rows of the current page within the wait
\* is contained at the page or the date: the race is not aborted and the
\* records accumulated for it are not discarded.
C15_PageFailureContained ==
    [][pc = "page_loop" => (pc' # "except" /\ outcome' # "aborted")]_vars

\* C16: a race for which zero records were extracted still writes an
\* (empty) output artifact.
C16_EmptyRaceWritesArtifact ==
    (pc = "finally" /\ race_results = <<>>) => writes[raceIdx] >= 1

\* C17: whenever the processing of a race has ended, normally or by an abort
\* at any step, every session opened for the race has been torn down.
C17_SessionsTornDown ==
    (pc \in {"race_loop", "done", "crashed"}) => liveSessions = 0

\* C18: no artifact path is written more than once in a run: two different
\* races of the catalog never write to the same path.
C18_ArtifactWrittenOnce ==
    \A j, k \in DOMAIN artifacts : j # k => artifacts[j] # artifacts[k]

\* C19: with ENABLE_PAGINATION false the next-page control is never clicked
\* and of each date facet exactly the first page is walked: the only page
\* whose rows are resolved is page 1, once, and the date is left after it.
C19_FirstPageOnly ==
    [][~cfgPagination
        => /\ pc' # "next_page"
           /\ clicks' = 0
           /\ tablePage' = 1
           /\ (pc = "page_loop" /\ pc' = "row") => (lastPage = 0 /\ tablePage = 1)
           /\ (pc = "page_loop" /\ pc' = "date_loop") => lastPage = 1]_vars

\* Pagination is off, the table has further pages, and the first date was
\* left after the rows of its first page.
C19_Witness ==
    /\ ~cfgPagination
    /\ NumPages > 1
    /\ pc = "date_loop"
    /\ i = 2
    /\ lastPage = 1
    /\ Len(race_results) = RowsPerPage
    /\ outcome = "running"

\* C20 (as stated): with SET_ROWS_TO_100 on, in every session from which
\* rows are extracted the page size is set exactly once, before the first
\* row of the session is extracted.
C20_SizeSetOncePerSession ==
    /\ [](cfgSetRows /\ sessionRows => sizeSets = 1)
    /\ [][cfgSetRows /\ sizeSets' > sizeSets => ~sessionRows]_vars

\* C20 (amended): with SET_ROWS_TO_100 on, the page size is set at most once
\* in a session and never after a row of the session was extracted; in a
\* session from which rows are extracted it is set exactly once unless the
\* page-size step failed on all its 5 attempts, and then not at all.
C20_SizeSetAtMostOncePerSession ==
    /\ [](cfgSetRows => sizeSets <= 1)
    /\ [](cfgSetRows /\ sessionRows => (sizeSets = 1 \/ (sizeSets = 0 /\ sizeStepFailed)))
    /\ [][cfgSetRows /\ sizeSets' > sizeSets => ~sessionRows]_vars

\* Rows of the second date are being extracted from a recycled session in
\* which the page size was set once.
C20_Witness ==
    /\ cfgSetRows
    /\ pc = "row"
    /\ i = 2
    /\ sessionRows
    /\ sizeSets = 1
    /\ pageSize = "max"
    /\ opens = 2

MaxUrls == 2

MaxNormalise == 2

Suffix == <<"-", "r", "e", "s", "u", "l", "t", "s">>

Whitespace == {" ", "\t"}

RECURSIVE lstrip(_)
lstrip(s) ==
    IF s # <<>> /\ Head(s) \in Whitespace THEN lstrip(Tail(s)) ELSE s

RECURSIVE rstrip(_)
rstrip(s) ==
    IF s # <<>> /\ s[Len(s)] \in Whitespace
    THEN rstrip(SubSeq(s, 1, Len(s) - 1)) ELSE s

\* str.strip()
strip(s) == rstrip(lstrip(s))

\* str.endswith(suffix)
endswith(s, suffix) ==
    /\ Len(s) >= Len(suffix)
    /\ SubSeq(s, Len(s) - Len(suffix) + 1, Len(s)) = suffix

NotAString == [str |-> FALSE, text |-> <<>>]

String(s) == [str |-> TRUE, text |-> s]

\* lambda x: x.strip() + "-results"
\*     if isinstance(x, str) and not x.strip().endswith("-results") else x
normalise_url(x) ==
    IF x.str /\ ~endswith(strip(x.text), Suffix)
    THEN String(strip(x.text) \o Suffix)
    ELSE x

\* The cells a catalog may hold: a body, with or without the suffix, with or
\* without whitespace around it; or no string at all.
UrlBodies == {<<>>, <<"a">>, <<"a", " ", "b">>, <<"-", "r", "e", "s", "u", "l", "t">>}

UrlPads == {<<>>, <<" ">>, <<"\t", " ">>}

UrlCells ==
    {NotAString}
    \cup {String(lead \o body \o tail \o trail) :
              lead \in UrlPads, body \in UrlBodies,
              tail \in {<<>>, Suffix, Suffix \o Suffix}, trail \in UrlPads}

UrlColumns == UNION {[1..n -> UrlCells] : n \in 1..MaxUrls}

UrlInit ==
    /\ InitScraper
    /\ ShippedConfig
    /\ IdleArtifacts
    /\ IdleRerun
    /\ urls \in UrlColumns
    /\ normalised = 0
    /\ IdleRead
    /\ IdleQualifiers
    /\ IdleCatalog

\* race_data['URL'] = race_data['URL'].apply(...): every cell is replaced.
NormaliseUrls ==
    /\ normalised < MaxNormalise
    /\ urls' = [k \in DOMAIN urls |-> normalise_url(urls[k])]
    /\ normalised' = normalised + 1
    /\ UNCHANGED <<main, paths, reads, quals, listing>>

UrlNext == NormaliseUrls

UrlSpec == UrlInit /\ [][UrlNext]_vars

\* C22: after the catalog is loaded every entry URL that is a string ends
\* with the suffix "-results"; a URL that already ends with it is left
\* unchanged, so normalising twice gives what normalising once gives.
C22_UrlsEndWithSuffix ==
    /\ normalised >= 1
          => \A k \in DOMAIN urls :
                urls[k].str => endswith(urls[k].text, Suffix)
    /\ normalised >= 1
          => \A k \in DOMAIN urls : normalise_url(urls[k]) = urls[k]

(***************************************************************************)
(* combine_race_results.py, step 1: the general race results are collected *)
(* from races_dir. A path is its directory, the characters of the file     *)
(* name and the extension.                                                 *)
(***************************************************************************)
\* races_dir = "data/results/races"
races_dir == <<"data", "results", "races">>

\* The files on disk the scraper has written.
WrittenFiles == {artifacts[k] : k \in DOMAIN artifacts}

\* combine_csvs_from_directory(input_dir): the files of input_dir whose name
\* ends with ".csv" are read.
combine_csvs_from_directory(input_dir, disk) ==
    {path \in disk : path[1] = input_dir /\ path[Len(path)] = ".csv"}

\* C23: for each race the results scraper saves its CSV in data/results/races,
\* the directory from which combine_race_results collects the general race
\* results, so every artifact the scraper writes is read by the combine step.
C23_ArtifactsReadByCombine ==
    \A k \in DOMAIN artifacts :
        /\ artifacts[k][1] = races_dir
        /\ artifacts[k] \in combine_csvs_from_directory(races_dir, WrittenFiles)

(***************************************************************************)
(* get_text and get_text_by_data_field, lookup by lookup: retries rounds,  *)
(* in each round one find_element per xpath, the first text found is       *)
(* returned, "N/A" when the rounds are used up.                            *)
(***************************************************************************)
\* retries=3
retries == 3

\* The texts an element may show.
Texts == {"FINISHER", "01:02:03", ""}

\* What find_element(...).text may raise.
LookupErrors == {"NoSuchElementException", "StaleElementReferenceException",
                 "WebDriverException"}

\* The xpaths a round tries: one in get_text, two in get_text_by_data_field.
xpath_variants(fn) == IF fn = "get_text_by_data_field" THEN 2 ELSE 1

\* Variant: only a missing element is caught.
Caught_missing(fn, error) == error = "NoSuchElementException"

\* except Exception: / except: -- every error of a lookup is caught.
Caught(fn, error) == error \in LookupErrors

FieldReadInit ==
    /\ InitScraper
    /\ ShippedConfig
    /\ IdleArtifacts
    /\ IdleRerun
    /\ IdleUrls
    /\ readFn \in {"get_text", "get_text_by_data_field"}
    /\ readRound = 0
    /\ readVariant = 1
    /\ readTried = <<>>
    /\ readResult = ""
    /\ readPc = "lookup"
    /\ IdleQualifiers
    /\ IdleCatalog

\* return driver.find_element(By.XPATH, xpath).text
LookupFound ==
    /\ readPc = "lookup"
    /\ \E text \in Texts :
          /\ readTried' = Append(readTried, text)
          /\ readResult' = get_text(TRUE, text)
    /\ readPc' = "returned"
    /\ UNCHANGED <<readFn, readRound, readVariant>>
    /\ UNCHANGED <<main, paths, urlcol, quals, listing>>

\* The lookup raises: the next xpath of the round, or the sleep and the next
\* round, or, the rounds used up, return "N/A".
LookupRaises ==
    /\ readPc = "lookup"
    /\ \E error \in LookupErrors :
          /\ readTried' = Append(readTried, error)
          /\ IF ~Caught(readFn, error)
             THEN /\ readPc' = "raised"
                  /\ UNCHANGED <<readRound, readVariant, readResult>>
             ELSE IF readVariant < xpath_variants(readFn)
             THEN /\ readVariant' = readVariant + 1
                  /\ UNCHANGED <<readRound, readResult, readPc>>
             ELSE IF readRound + 1 < retries
             THEN /\ readRound' = readRound + 1
                  /\ readVariant' = 1
                  /\ UNCHANGED <<readResult, readPc>>
             ELSE /\ readRound' = readRound + 1
                  /\ readVariant' = 1
                  /\ readResult' = get_text(FALSE, "")
                  /\ readPc' = "returned"
    /\ UNCHANGED readFn
    /\ UNCHANGED <<main, paths, urlcol, quals, listing>>

FieldReadNext == LookupFound \/ LookupRaises

FieldReadSpec == FieldReadInit /\ [][FieldReadNext]_vars

\* C24: a field read makes at most retries rounds of lookups (3), returns the
\* text of the first lookup that succeeds, returns the sentinel "N/A" after
\* all its rounds failed, and never raises to its caller.
C24_FieldRead ==
    /\ readPc # "raised"
    /\ readRound <= retries
    /\ Len(readTried) <= retries * xpath_variants(readFn)
    /\ \A k \in 1..(Len(readTried) - 1) : readTried[k] \in LookupErrors
    /\ readPc = "lookup" => \A k \in DOMAIN readTried : readTried[k] \in LookupErrors
    /\ readPc = "returned"
          => IF readTried[Len(readTried)] \in Texts
             THEN readResult = readTried[Len(readTried)]
             ELSE /\ readResult = NA
                  /\ readRound = retries
                  /\ Len(readTried) = retries * xpath_variants(readFn)

\* A read by data field found its text at the second xpath of its last
\* round, after five lookups that raised.
C24_Witness ==
    /\ readFn = "get_text_by_data_field"
    /\ readPc = "returned"
    /\ Len(readTried) = retries * 2
    /\ readResult = "01:02:03"

\* C25: a session recycle makes at most 10 attempts; each attempt tears down
\* the current session and then runs the open sequence as a unit (a session
\* that an attempt created is live after it, and no other); the recycle
\* stops at the first attempt whose whole sequence succeeds, and then the
\* live session shows the results frame of the same race, freshly loaded;
\* an attempt that fails is followed by the next one, the tenth by the
\* date's selection.
C25_Recycle ==
    [][pc = "restart"
        => /\ attempt < RestartAttempts
           /\ liveSessions' = (IF opens' > opens THEN 1 ELSE 0)
           /\ driver' = (IF opens' > opens THEN "live" ELSE "quit")
           /\ loc' = "frame"
                => /\ pc' = "select_date"
                   /\ driver' = "live"
                   /\ opens' = opens + 1
                   /\ sessionRace' = raceIdx
                   /\ tableDate' = DefaultDate /\ tablePage' = 1
           /\ loc' # "frame"
                => /\ attempt < RestartAttempts - 1
                      => (pc' = "restart" /\ attempt' = attempt + 1)
                   /\ attempt = RestartAttempts - 1 => pc' = "select_date"
           /\ UNCHANGED <<raceIdx, i, race_results>>]_vars

\* The recycle before a date succeeded at its fourth attempt, after an
\* attempt that left a session open on the race page.
C25_Witness ==
    /\ pc = "select_date"
    /\ attempt = 0
    /\ i = 2
    /\ loc = "frame"
    /\ sessionRace = raceIdx
    /\ liveSessions = 1
    /\ opens >= 3
    /\ faults = 1

\* C26: every record appended while date index i of a race is processed
\* carries as Race Date the label of option i of that race's date selector
\* and was read from the table loaded by selecting option i; when the
\* selection of option i failed on all its attempts no record is appended
\* under a label left over from an earlier date or an earlier race.
C26_RecordsOfSelectedDate ==
    [][Len(race_results') > Len(race_results)
        => /\ race_results'[Len(race_results')]["Race Date"] = DateLabel(raceIdx, i)
           /\ tableDate = i]_vars

\* C27: in every reachable state of a run at most one automation session is
\* live: a new session is created only after the previous one has been torn
\* down, within a race and across races.
C27_OneLiveSession ==
    /\ [](liveSessions <= 1)
    /\ [][opens' # opens /\ pc # "race_loop"
            => /\ opens' = opens + 1
               /\ liveSessions' = 1
               /\ driver' = "live"]_vars
    /\ [][pc = "start_driver" => liveSessions = 0]_vars

\* The second race has its session recycled for its second date: its first
\* session and two more have been created, and one is live.
C27_Witness ==
    /\ raceIdx = 2
    /\ pc = "select_date"
    /\ i = 2
    /\ opens = 3
    /\ liveSessions = 1
    /\ loc = "frame"

\* C28: when the extraction of a row ends, with a record or after its last
\* failed attempt, that row is collapsed; hence when the label-anchored
\* designation, rank and division lookups run for a row, that row is the
\* only expanded row of the page and the values read belong to it.
C28_RowCollapsedAfterExtraction ==
    [][/\ (pc = "row" /\ (pc' # "row" \/ row_number' # row_number))
            => row_number \notin expanded'
       /\ Len(race_results') > Len(race_results)
            => /\ Opened = {row_number}
               /\ LET rec == race_results'[Len(race_results')]
                  IN  /\ rec["Designation"] \in
                            {RemoteDesignation(raceIdx, tableDate, tablePage,
                                               row_number), NA}
                      /\ \A f \in RankFields \cap DOMAIN rec :
                            rec[f] \in {RemoteText(raceIdx, tableDate, tablePage,
                                                   row_number, f), NA}]_vars

(***************************************************************************)
(* calculate_wc_qualifiers.py, the time gap analysis: qualified_athletes   *)
(* holds one row per match of a qualifying result with a WC result of the  *)
(* same athlete; the step keeps the rows at the idxmin of each group.      *)
(***************************************************************************)
\* The rows of the table of matches, and the values of their columns.
MaxMatches == 3

NumAthletes == 2

NumRaceNames == 2

NumSeasons == 3

\* A match: the qualifying race precedes the WC race (the filter above).
MatchRows ==
    {row \in [Athlete : 1..NumAthletes, RaceName : 1..NumRaceNames,
              QualifyingRaceDate : 1..NumSeasons, WCRaceDate : 1..NumSeasons] :
        row.QualifyingRaceDate < row.WCRaceDate}

MatchTables == UNION {[1..n -> MatchRows] : n \in 1..MaxMatches}

\* qualified_athletes["Time Gap"] = (WC Race Date - Qualifying Race Date).days
TimeGap(row) == row.WCRaceDate - row.QualifyingRaceDate

\* groupby(["Athlete", "Race Name", "Qualifying Race Date"])
GroupKey(row) == <<row.Athlete, row.RaceName, row.QualifyingRaceDate>>

\* The order in which groupby yields its groups: sorted by key.
KeyBefore(a, b) ==
    \/ a[1] < b[1]
    \/ a[1] = b[1] /\ a[2] < b[2]
    \/ a[1] = b[1] /\ a[2] = b[2] /\ a[3] < b[3]

RECURSIVE SortedKeys(_)
SortedKeys(keys) ==
    IF keys = {} THEN <<>>
    ELSE LET first == CHOOSE a \in keys : \A b \in keys \ {a} : KeyBefore(a, b)
         IN  <<first>> \o SortedKeys(keys \ {first})

\* ["Time Gap"].idxmin() of a group: the index of the first row of the group
\* with the smallest gap.
idxmin(table, key) ==
    CHOOSE k \in DOMAIN table :
        /\ GroupKey(table[k]) = key
        /\ \A j \in DOMAIN table :
              GroupKey(table[j]) = key
                  => \/ TimeGap(table[k]) < TimeGap(table[j])
                     \/ TimeGap(table[k]) = TimeGap(table[j]) /\ k <= j

\* closest_race_idx and qualified_athletes.loc[closest_race_idx]
closest_race(table) ==
    LET keys == SortedKeys({GroupKey(table[k]) : k \in DOMAIN table})
    IN  [n \in DOMAIN keys |-> table[idxmin(table, keys[n])]]

QualifiersInit ==
    /\ InitScraper
    /\ ShippedConfig
    /\ IdleArtifacts
    /\ IdleRerun
    /\ IdleUrls
    /\ IdleRead
    /\ matches \in MatchTables
    /\ matched = matches
    /\ qualPc = "gaps"
    /\ IdleCatalog

\* Keep closest qualifying race per athlete-WC pair (lines 114-120).
ClosestRace ==
    /\ qualPc = "gaps"
    /\ matches' = closest_race(matches)
    /\ qualPc' = "closest"
    /\ UNCHANGED matched
    /\ UNCHANGED <<main, paths, urlcol, reads, listing>>

QualifiersNext == ClosestRace

QualifiersSpec == QualifiersInit /\ [][QualifiersNext]_vars

\* C29: after the closest-race step, for every pair of an athlete and a WC
\* race only the match with the qualifying race closest in time to that WC
\* race (minimum Time Gap) remains.
C29_ClosestQualifyingRace ==
    qualPc = "closest"
        => /\ \A k \in DOMAIN matches :
                 \A j \in DOMAIN matched :
                     (matched[j].Athlete = matches[k].Athlete
                          /\ matched[j].WCRaceDate = matches[k].WCRaceDate)
                         => TimeGap(matches[k]) <= TimeGap(matched[j])
           /\ \A k, j \in DOMAIN matches :
                 (matches[j].Athlete = matches[k].Athlete
                      /\ matches[j].WCRaceDate = matches[k].WCRaceDate)
                     => j = k

(***************************************************************************)
(* ironman_race_urls_scraper.py: the load-more loop and the save. The      *)
(* listing has TotalCards cards; the page shows the first cards of them,   *)
(* and more of them as they load.                                          *)
(***************************************************************************)
TotalCards == 3

max_retries == 10

\* Variant: the poll is satisfied by a count that did not grow.
MoreCards_same(new_count, count) == new_count >= count

\* if new_count > current_count
MoreCards(new_count, count) == new_count > count

\* The cards of a set, in the order of the page.
RECURSIVE InPageOrder(_)
InPageOrder(S) ==
    IF S = {} THEN <<>>
    ELSE LET first == CHOOSE n \in S : \A k \in S : n <= k
         IN  <<first>> \o InPageOrder(S \ {first})

\* extract_races(): every card shown is parsed and appended; a card whose
\* parsing raises is skipped.
Extractions == {InPageOrder(S) : S \in SUBSET (1..cards)}

\* DataFrame.drop_duplicates(): the first of equal rows is kept.
RECURSIVE drop_duplicates(_)
drop_duplicates(data) ==
    IF data = <<>> THEN <<>>
    ELSE LET rest == drop_duplicates(SubSeq(data, 1, Len(data) - 1))
             last == data[Len(data)]
         IN  IF \E k \in DOMAIN rest : rest[k] = last THEN rest
             ELSE Append(rest, last)

\* The scraper at the head of its loop, the cards of the first load parsed.
CatalogInit ==
    /\ InitScraper
    /\ ShippedConfig
    /\ IdleArtifacts
    /\ IdleRerun
    /\ IdleUrls
    /\ IdleRead
    /\ IdleQualifiers
    /\ cards \in 1..TotalCards
    /\ current_count = 0
    /\ polls = 0
    /\ race_data \in Extractions
    /\ savedCatalog = <<>>
    /\ urlsPc = "count"

\* The other cards of the listing may have loaded by now.
CardsShown == cards..TotalCards

\* current_count = len(driver.find_elements(...))
CountCards ==
    /\ urlsPc = "count"
    /\ \E shown \in CardsShown :
          /\ cards' = shown
          /\ current_count' = shown
    /\ urlsPc' = "locate"
    /\ UNCHANGED <<polls, race_data, savedCatalog>>
    /\ UNCHANGED <<main, paths, urlcol, reads, quals>>

\* The control is found, scrolled to and clicked.
LoadMoreClicked ==
    /\ urlsPc = "locate"
    /\ polls' = 0
    /\ urlsPc' = "poll"
    /\ UNCHANGED <<cards, current_count, race_data, savedCatalog>>
    /\ UNCHANGED <<main, paths, urlcol, reads, quals>>

\* One round of the for: sleep, count, compare; the else of the for after
\* max_retries rounds.
PollCards ==
    /\ urlsPc = "poll"
    /\ \E shown \in CardsShown :
          /\ cards' = shown
          /\ IF MoreCards(shown, current_count)
             THEN /\ urlsPc' = "extract"
                  /\ UNCHANGED polls
             ELSE /\ polls' = polls + 1
                  /\ urlsPc' = IF polls + 1 >= max_retries THEN "save" ELSE "poll"
    /\ UNCHANGED <<current_count, race_data, savedCatalog>>
    /\ UNCHANGED <<main, paths, urlcol, reads, quals>>

\* extract_races() after new cards were seen.
ExtractRaces ==
    /\ urlsPc = "extract"
    /\ \E parsed \in Extractions : race_data' = race_data \o parsed
    /\ urlsPc' = "count"
    /\ UNCHANGED <<cards, current_count, polls, savedCatalog>>
    /\ UNCHANGED <<main, paths, urlcol, reads, quals>>

\* except Exception: break -- a count, the wait for the control, a script
\* call or the extraction raised.
LoadMoreRaises ==
    /\ urlsPc \in {"count", "locate", "poll", "extract"}
    /\ urlsPc' = "save"
    /\ UNCHANGED <<cards, current_count, polls, race_data, savedCatalog>>
    /\ UNCHANGED <<main, paths, urlcol, reads, quals>>

\* df = pd.DataFrame(race_data).drop_duplicates(); df.to_csv(...)
SaveCatalog ==
    /\ urlsPc = "save"
    /\ savedCatalog' = drop_duplicates(race_data)
    /\ urlsPc' = "saved"
    /\ UNCHANGED <<cards, current_count, polls, race_data>>
    /\ UNCHANGED <<main, paths, urlcol, reads, quals>>

CatalogNext ==
    \/ CountCards
    \/ LoadMoreClicked
    \/ PollCards
    \/ ExtractRaces
    \/ LoadMoreRaises
    \/ SaveCatalog

\* The script is one sequential process; its sleeps and waits are bounded.
CatalogSpec == CatalogInit /\ [][CatalogNext]_vars /\ WF_vars(CatalogNext)

\* C30: the load-more loop terminates: every iteration either observes
\* strictly more cards than before its click and continues, or ends the loop
\* (after 10 polls without a new card, or when the control cannot be found
\* or clicked); so for a listing of finitely many cards the loop ends and
\* the catalog is saved.
C30_LoadMoreTerminates ==
    /\ (urlsPc \in {"count", "locate", "poll", "extract"}) ~> (urlsPc = "saved")
    /\ [][urlsPc' = "extract" => (urlsPc = "poll" /\ cards' > current_count)]_vars
    /\ [][(urlsPc = "poll" /\ urlsPc' = "save")
             => (polls' = max_retries \/ UNCHANGED <<cards, polls>>)]_vars
    /\ [](polls <= max_retries /\ current_count <= TotalCards)
    /\ [](urlsPc = "saved" => savedCatalog = drop_duplicates(race_data))

\* The whole listing was loaded in two clicks, the third click brought no
\* card in ten polls, and the catalog was saved with every card in it.
C30_Witness ==
    /\ urlsPc = "saved"
    /\ cards = TotalCards
    /\ current_count = TotalCards
    /\ polls = max_retries
    /\ Len(race_data) > TotalCards
    /\ savedCatalog = InPageOrder(1..TotalCards)

=============================================================================
